---- MODULE Spec2Model ----
(***************************************************************************)
(* A model of blainemoser/MySqlDB: the Database facade (Make,              *)
(* MakeSchemaless, SetSchema, Close, connect, config supplementation) and  *)
(* the result walker behind QueryRaw, Row and RowByStringField (type       *)
(* dispatch in makeRow, row materialisation in getResultantRow and         *)
(* getRowValue, the cursor walk in rowResultWalk).                         *)
(*                                                                         *)
(* The SQL driver is the environment: what a query answers (an error, or   *)
(* a cursor with column descriptors, rows and possibly a fault) is fixed   *)
(* in the initial state and consumed by the code step by step.             *)
(***************************************************************************)
EXTENDS Integers, Sequences, FiniteSets, TLC

VARIABLES
    response,     \* what the driver answers to the query (environment)
    op,           \* the public operation in progress
    pc,           \* position of that operation in the code
    cursor,       \* the *sql.Rows handle: exists, closed, closes, pos
    cols,         \* parseRowResults: cols
    typeMapping,  \* parseRowResults: typeMapping
    targets,      \* getResultantRow: row (the scan targets of the current row)
    result,       \* rowResultWalk: result
    qret,         \* what QueryRaw returned: [isNil, recs, err]
    ret,          \* what the public operation returned: [isNil, recs, err]
    env,          \* the process environment: DB_HOST ... DB_CONNECTION
    cfgs,         \* heap of Configs objects, by address
    dbs,          \* the Database instances, by slot
    conns,        \* every connection handle sql.Open returned, in order
    last,         \* the last facade operation, its arguments, and whether it hit log.Fatal
    record        \* the last Record.Create or Record.Update: statement, parameters, return

walkVars == <<response, op, pc, cursor, cols, typeMapping, targets, result, qret, ret>>
dbVars == <<env, cfgs, dbs, conns, last, record>>
vars == <<response, op, pc, cursor, cols, typeMapping, targets, result, qret, ret,
          env, cfgs, dbs, conns, last, record>>

-----------------------------------------------------------------------------
(* Bounds of the walker model *)

MaxCols == 2
MaxRows == 2

-----------------------------------------------------------------------------
(* Values *)

\* A value as the driver hands it to Scan: database NULL, an integer, a
\* float (in hundredths, 125 is 1.25) or non-numeric text.
SrcNull == [kind |-> "NULL", n |-> 0, s |-> ""]
SrcInt == [kind |-> "int", n |-> 7, s |-> ""]
SrcFloat == [kind |-> "float", n |-> 125, s |-> ""]
SrcText == [kind |-> "text", n |-> 0, s |-> "WIDG2"]

\* A Go value held in a map[string]interface{}: nil, int64, float64 or string.
GoNil == [kind |-> "nil", n |-> 0, s |-> ""]
GoInt64(n) == [kind |-> "int64", n |-> n, s |-> ""]
GoFloat64(n) == [kind |-> "float64", n |-> n, s |-> ""]
GoString(s) == [kind |-> "string", n |-> 0, s |-> s]

\* error values
ErrNil == "<nil>"

\* a ([]map[string]interface{}, error) pair
Returned(isNil, recs, err) == [isNil |-> isNil, recs |-> recs, err |-> err]
NotReturned == Returned(TRUE, <<>>, "<not returned>")


-----------------------------------------------------------------------------
(* Scan targets: sql.NullInt64, sql.NullFloat64, sql.NullString *)

\* var newCol sql.NullInt64 (and the other two): the zero value of the holder
NullInt64 == [kind |-> "NullInt64", Valid |-> FALSE, n |-> 0, s |-> ""]
NullFloat64 == [kind |-> "NullFloat64", Valid |-> FALSE, n |-> 0, s |-> ""]
NullString == [kind |-> "NullString", Valid |-> FALSE, n |-> 0, s |-> ""]

\* newCol with the BIT case lost, so that BIT falls through to the default
newColWithoutBit(t) ==
    IF t \in {"INT", "TINYINT", "BOOL", "BOOLEAN", "SMALLINT", "MEDIUMINT",
              "INTEGER", "BIGINT"} THEN NullInt64
    ELSE IF t \in {"FLOAT", "DOUBLE", "DECIMAL", "DEC"} THEN NullFloat64
    ELSE NullString

\* newCol switching on the lower-cased or upper-cased type name as well
newColFoldingCase(t) ==
    IF t \in {"INT", "BIT", "TINYINT", "BOOL", "BOOLEAN", "SMALLINT", "MEDIUMINT",
              "INTEGER", "BIGINT", "int", "bit", "tinyint", "bool", "boolean",
              "smallint", "mediumint", "integer", "bigint"} THEN NullInt64
    ELSE IF t \in {"FLOAT", "DOUBLE", "DECIMAL", "DEC", "float", "double",
                   "decimal", "dec"} THEN NullFloat64
    ELSE NullString

\* makeRow's switch on typeMapping[v]: Go compares strings byte by byte
newCol(t) ==
    CASE
         t = "INT" -> NullInt64
      [] t = "BIT" -> NullInt64
      [] t = "TINYINT" -> NullInt64
      [] t = "BOOL" -> NullInt64
      [] t = "BOOLEAN" -> NullInt64
      [] t = "SMALLINT" -> NullInt64
      [] t = "MEDIUMINT" -> NullInt64
      [] t = "INTEGER" -> NullInt64
      [] t = "BIGINT" -> NullInt64
      [] t = "FLOAT" -> NullFloat64
      [] t = "DOUBLE" -> NullFloat64
      [] t = "DECIMAL" -> NullFloat64
      [] t = "DEC" -> NullFloat64
      [] t = "CHAR" -> NullString
      [] t = "VARCHAR" -> NullString
      [] t = "BINARY" -> NullString
      [] t = "VARBINARY" -> NullString
      [] t = "TINYBLOB" -> NullString
      [] t = "TINYTEXT" -> NullString
      [] t = "TEXT" -> NullString
      [] t = "BLOB" -> NullString
      [] t = "MEDIUMTEXT" -> NullString
      [] t = "MEDIUMBLOB" -> NullString
      [] t = "LONGTEXT" -> NullString
      [] t = "LONGBLOB" -> NullString
      [] t = "ENUM" -> NullString
      [] t = "SET" -> NullString
      [] t = "DATE" -> NullString
      [] t = "DATETIME" -> NullString
      [] t = "TIMESTAMP" -> NullString
      [] t = "TIME" -> NullString
      [] t = "YEAR" -> NullString
      [] OTHER -> NullString

\* typeMapping[v]: a Go map read of a missing key yields the empty string
Lookup(m, k) == IF k \in DOMAIN m THEN m[k] ELSE ""

\* makeRow: one fresh target per column name, in column order
makeRow(tm, cs) == [i \in 1..Len(cs) |-> newCol(Lookup(tm, cs[i]))]

\* mapColTypes: typeMapping[v.Name()] = v.DatabaseTypeName(), in order, so a
\* later column of the same name overwrites an earlier one
RECURSIVE mapColTypesFrom(_, _, _)
mapColTypesFrom(colTypes, i, tm) ==
    IF i > Len(colTypes) THEN tm
    ELSE mapColTypesFrom(colTypes, i + 1,
            (colTypes[i].name :> colTypes[i].type) @@ tm)

mapColTypes(colTypes) == mapColTypesFrom(colTypes, 1, <<>>)

\* strconv formatting of a float held in hundredths: 125 is "1.25"
FormatFloat(n) ==
    ToString(n \div 100) \o "." \o ToString((n % 100) \div 10) \o ToString(n % 10)

\* database/sql's conversion of one driver value into one target, as
\* rowResult.Scan applies it: NULL clears Valid; a value of another family is
\* converted through its text, which fails for text that is no number
ScanOne(target, src) ==
    CASE src.kind = "NULL" -> [ok |-> TRUE, col |-> [target EXCEPT !.Valid = FALSE]]
      [] src.kind # "NULL" /\ target.kind = "NullString" ->
            [ok |-> TRUE,
             col |-> [target EXCEPT !.Valid = TRUE,
                        !.s = CASE src.kind = "text" -> src.s
                                [] src.kind = "int" -> ToString(src.n)
                                [] OTHER -> FormatFloat(src.n)]]
      [] src.kind # "NULL" /\ target.kind = "NullInt64" ->
            CASE src.kind = "int" ->
                    [ok |-> TRUE, col |-> [target EXCEPT !.Valid = TRUE, !.n = src.n]]
              [] src.kind = "float" /\ src.n % 100 = 0 ->
                    [ok |-> TRUE,
                     col |-> [target EXCEPT !.Valid = TRUE, !.n = src.n \div 100]]
              [] OTHER -> [ok |-> FALSE, col |-> target]
      [] OTHER ->
            CASE src.kind = "float" ->
                    [ok |-> TRUE, col |-> [target EXCEPT !.Valid = TRUE, !.n = src.n]]
              [] src.kind = "int" ->
                    [ok |-> TRUE,
                     col |-> [target EXCEPT !.Valid = TRUE, !.n = src.n * 100]]
              [] OTHER -> [ok |-> FALSE, col |-> target]

\* rowResult.Scan(row...): all targets or none; fails when the driver reports
\* a fault for this row or when one value does not fit its target
Scan(row, srcRow, driverFault) ==
    LET each == [i \in 1..Len(row) |-> ScanOne(row[i], srcRow[i])]
    IN  IF driverFault THEN [err |-> "scan error", row |-> row]
        ELSE IF \E i \in 1..Len(row) : ~each[i].ok
        THEN [err |-> "scan conversion error", row |-> row]
        ELSE [err |-> ErrNil, row |-> [i \in 1..Len(row) |-> each[i].col]]

\* getRowValue: the holder's payload field, whatever its Valid flag says
getRowValue(v) ==
    CASE v.kind = "NullString" -> GoString(v.s)
      [] v.kind = "NullInt64" -> GoInt64(v.n)
      [] OTHER -> GoFloat64(v.n)

\* getResultantRow's loop: resultRow[cols[count]] = getRowValue(v), count++
RECURSIVE fillResultRow(_, _, _, _)
fillResultRow(cs, row, count, resultRow) ==
    IF count > Len(row) THEN resultRow
    ELSE fillResultRow(cs, row, count + 1,
            (cs[count] :> getRowValue(row[count])) @@ resultRow)

\* getResultantRow storing only the columns whose holder is valid
getResultantRowSkippingNull(cs, tm, srcRow, driverFault) ==
    LET scanned == Scan(makeRow(tm, cs), srcRow, driverFault)
        kept == { i \in 1..Len(cs) : scanned.row[i].Valid }
    IN  IF scanned.err # ErrNil
        THEN [isNil |-> TRUE, rec |-> <<>>, err |-> scanned.err, row |-> scanned.row]
        ELSE [isNil |-> FALSE,
              rec |-> [c \in { cs[i] : i \in kept } |->
                         getRowValue(scanned.row[CHOOSE i \in kept : cs[i] = c])],
              err |-> ErrNil, row |-> scanned.row]

\* getResultantRow: makeRow, Scan, then the record; nil and the error when
\* Scan fails
getResultantRow(cs, tm, srcRow, driverFault) ==
    LET scanned == Scan(makeRow(tm, cs), srcRow, driverFault)
    IN  IF scanned.err # ErrNil
        THEN [isNil |-> TRUE, rec |-> <<>>, err |-> scanned.err, row |-> scanned.row]
        ELSE [isNil |-> FALSE, rec |-> fillResultRow(cs, scanned.row, 1, <<>>),
              err |-> ErrNil, row |-> scanned.row]

-----------------------------------------------------------------------------
(* The driver's answers *)

\* the column descriptors the walker model draws a result's columns from;
\* two of them share the name id
ColumnPool ==
    { [name |-> "id", type |-> "INT"], [name |-> "id", type |-> "VARCHAR"],
      [name |-> "sku", type |-> "VARCHAR"], [name |-> "weight", type |-> "FLOAT"] }

\* the type names the walker's dispatch is written for
UpperNames ==
    { "INT", "BIT", "TINYINT", "BOOL", "BOOLEAN", "SMALLINT", "MEDIUMINT",
      "INTEGER", "BIGINT", "FLOAT", "DOUBLE", "DECIMAL", "DEC", "CHAR",
      "VARCHAR", "BINARY", "VARBINARY", "TINYBLOB", "TINYTEXT", "TEXT",
      "BLOB", "MEDIUMTEXT", "MEDIUMBLOB", "LONGTEXT", "LONGBLOB", "ENUM",
      "SET", "DATE", "DATETIME", "TIMESTAMP", "TIME", "YEAR" }

\* strings.ToLower of each of them
LowerCase ==
       ("INT" :> "int")
    @@ ("BIT" :> "bit")
    @@ ("TINYINT" :> "tinyint")
    @@ ("BOOL" :> "bool")
    @@ ("BOOLEAN" :> "boolean")
    @@ ("SMALLINT" :> "smallint")
    @@ ("MEDIUMINT" :> "mediumint")
    @@ ("INTEGER" :> "integer")
    @@ ("BIGINT" :> "bigint")
    @@ ("FLOAT" :> "float")
    @@ ("DOUBLE" :> "double")
    @@ ("DECIMAL" :> "decimal")
    @@ ("DEC" :> "dec")
    @@ ("CHAR" :> "char")
    @@ ("VARCHAR" :> "varchar")
    @@ ("BINARY" :> "binary")
    @@ ("VARBINARY" :> "varbinary")
    @@ ("TINYBLOB" :> "tinyblob")
    @@ ("TINYTEXT" :> "tinytext")
    @@ ("TEXT" :> "text")
    @@ ("BLOB" :> "blob")
    @@ ("MEDIUMTEXT" :> "mediumtext")
    @@ ("MEDIUMBLOB" :> "mediumblob")
    @@ ("LONGTEXT" :> "longtext")
    @@ ("LONGBLOB" :> "longblob")
    @@ ("ENUM" :> "enum")
    @@ ("SET" :> "set")
    @@ ("DATE" :> "date")
    @@ ("DATETIME" :> "datetime")
    @@ ("TIMESTAMP" :> "timestamp")
    @@ ("TIME" :> "time")
    @@ ("YEAR" :> "year")

\* each of them with only its first letter in upper case
TitleCase ==
       ("INT" :> "Int")
    @@ ("BIT" :> "Bit")
    @@ ("TINYINT" :> "Tinyint")
    @@ ("BOOL" :> "Bool")
    @@ ("BOOLEAN" :> "Boolean")
    @@ ("SMALLINT" :> "Smallint")
    @@ ("MEDIUMINT" :> "Mediumint")
    @@ ("INTEGER" :> "Integer")
    @@ ("BIGINT" :> "Bigint")
    @@ ("FLOAT" :> "Float")
    @@ ("DOUBLE" :> "Double")
    @@ ("DECIMAL" :> "Decimal")
    @@ ("DEC" :> "Dec")
    @@ ("CHAR" :> "Char")
    @@ ("VARCHAR" :> "Varchar")
    @@ ("BINARY" :> "Binary")
    @@ ("VARBINARY" :> "Varbinary")
    @@ ("TINYBLOB" :> "Tinyblob")
    @@ ("TINYTEXT" :> "Tinytext")
    @@ ("TEXT" :> "Text")
    @@ ("BLOB" :> "Blob")
    @@ ("MEDIUMTEXT" :> "Mediumtext")
    @@ ("MEDIUMBLOB" :> "Mediumblob")
    @@ ("LONGTEXT" :> "Longtext")
    @@ ("LONGBLOB" :> "Longblob")
    @@ ("ENUM" :> "Enum")
    @@ ("SET" :> "Set")
    @@ ("DATE" :> "Date")
    @@ ("DATETIME" :> "Datetime")
    @@ ("TIMESTAMP" :> "Timestamp")
    @@ ("TIME" :> "Time")
    @@ ("YEAR" :> "Year")

\* type names the dispatch has no case for: "UNSIGNED INT" is what the MySQL
\* driver reports for an unsigned INT column, "" what database/sql gives when
\* the driver reports none
OtherNames == { "UNSIGNED INT", "JSON", "GEOMETRY", "" }

\* every type name the type model lets a column report
TypeNames ==
    UpperNames \cup { LowerCase[t] : t \in UpperNames }
    \cup { TitleCase[t] : t \in UpperNames } \cup OtherNames

\* the type names of MySQL's integer and floating-point families, in any of
\* these letter-casings
IntFamily ==
    LET U == { "INT", "BIT", "TINYINT", "BOOL", "BOOLEAN", "SMALLINT", "MEDIUMINT",
      "INTEGER", "BIGINT" }
    IN  U \cup { LowerCase[t] : t \in U } \cup { TitleCase[t] : t \in U }

FloatFamily ==
    LET U == { "FLOAT", "DOUBLE", "DECIMAL", "DEC" }
    IN  U \cup { LowerCase[t] : t \in U } \cup { TitleCase[t] : t \in U }

\* what the database sends in a cell of a column of the given type: NULL or
\* a value of the column's family
CellValues(t) ==
    { SrcNull,
      IF t \in IntFamily THEN SrcInt
      ELSE IF t \in FloatFamily THEN SrcFloat ELSE SrcText }

ColSeqs(pool, maxCols) == UNION { [1..n -> pool] : n \in 1..maxCols }

\* the rows a cursor over the columns cs can yield
RowsOf(cs) ==
    { r \in [1..Len(cs) -> {SrcNull, SrcInt, SrcFloat, SrcText}] :
        \A i \in 1..Len(cs) : r[i] \in CellValues(cs[i].type) }

\* the column lists a query can select from the database in use
Selectable(db) ==
    IF db = "widgets" THEN ColSeqs(ColumnPool, MaxCols)
    ELSE { <<[name |-> "c", type |-> t]>> : t \in TypeNames }

NoResponse(db) == [db |-> db, cols |-> <<>>, rows |-> <<>>, fault |-> "none"]

Names(cs) == [i \in 1..Len(cs) |-> cs[i].name]

-----------------------------------------------------------------------------
(* The walker: QueryRaw, parseRowResults, rowResultWalk, Row, RowByStringField *)

NoCursor ==
    [exists |-> FALSE, closed |-> FALSE, closes |-> 0, pos |-> 0, calls |-> <<>>]

\* a call on rowResult, kept in the order the code makes them
Called(c, call) == [c EXCEPT !.calls = Append(c.calls, call)]

\* rowResult.Close()
CloseRows(c) ==
    [Called(c, "Close") EXCEPT !.closed = TRUE, !.closes = c.closes + 1]

\* getRowResult, the first statement of QueryRaw: the query's error, or the
\* cursor over the columns the query selects
getRowResult(o) ==
    /\ pc = "idle"
    /\ op' = o
    /\ \/ /\ response' = [response EXCEPT !.fault = "query"]
          /\ qret' = Returned(TRUE, <<>>, "query error")
          /\ pc' = "returned"
          /\ UNCHANGED cursor
       \/ /\ \E cs \in Selectable(response.db) :
                response' = [response EXCEPT !.cols = cs]
          /\ cursor' = [exists |-> TRUE, closed |-> FALSE, closes |-> 0, pos |-> 0,
                        calls |-> <<>>]
          /\ pc' = "Columns"
          /\ UNCHANGED qret
    /\ UNCHANGED <<cols, typeMapping, targets, result, ret>>
    /\ UNCHANGED dbVars

\* a caller calls QueryRaw
QueryRaw == getRowResult("QueryRaw")

\* a caller calls Row, which calls QueryRaw
Row == getRowResult("Row")

\* a caller calls RowByStringField, which calls QueryRaw
RowByStringField == getRowResult("RowByStringField")

\* parseRowResults: rowResult.Columns(), which fails or gives the names
parseRowResults ==
    /\ pc = "Columns"
    /\ \/ /\ response' = [response EXCEPT !.fault = "columns"]
          /\ qret' = Returned(TRUE, <<>>, "columns error")
          /\ pc' = "returned"
          /\ UNCHANGED cols
       \/ /\ cols' = Names(response.cols)
          /\ pc' = "ColumnTypes"
          /\ UNCHANGED <<response, qret>>
    /\ cursor' = Called(cursor, "Columns")
    /\ UNCHANGED <<op, typeMapping, targets, result, ret>>
    /\ UNCHANGED dbVars

\* getTypeMapping: rowResult.ColumnTypes(), which fails or gives the
\* descriptors for mapColTypes; then rowResultWalk starts with an empty result
getTypeMapping ==
    /\ pc = "ColumnTypes"
    /\ \/ /\ response' = [response EXCEPT !.fault = "columnTypes"]
          /\ qret' = Returned(TRUE, <<>>, "column types error")
          /\ pc' = "returned"
          /\ UNCHANGED <<typeMapping, result>>
       \/ /\ typeMapping' = mapColTypes(response.cols)
          /\ result' = <<>>
          /\ pc' = "Next"
          /\ UNCHANGED <<response, qret>>
    /\ cursor' = Called(cursor, "ColumnTypes")
    /\ UNCHANGED <<op, cols, targets, ret>>
    /\ UNCHANGED dbVars

\* rowResultWalk: rowResult.Next() yields one more row, or ends the loop
\* because the rows ran out or because of a fault
rowResultWalkNext ==
    /\ pc = "Next"
    /\ \/ /\ Len(response.rows) < MaxRows
          /\ \E r \in RowsOf(response.cols) :
                response' = [response EXCEPT !.rows = Append(response.rows, r)]
          /\ cursor' = [Called(cursor, "Next true") EXCEPT !.pos = cursor.pos + 1]
          /\ pc' = "Row"
       \/ /\ \E f \in {"none", "terminal"} :
                response' = [response EXCEPT !.fault = f]
          /\ cursor' = Called(cursor, "Next false")
          /\ pc' = "Err"
    /\ UNCHANGED <<op, cols, typeMapping, targets, result, qret, ret>>
    /\ UNCHANGED dbVars

\* rowResultWalkAppend putting the new record in front
rowResultWalkPrepend(res, r) ==
    IF r.err # ErrNil
    THEN [returns |-> TRUE, result |-> res, ret |-> Returned(TRUE, <<>>, r.err)]
    ELSE [returns |-> FALSE, result |-> <<r.rec>> \o res, ret |-> NotReturned]

\* what rowResultWalk does with getResultantRow's answer: return nil and the
\* error, or append the record
rowResultWalkAppend(res, r) ==
    IF r.err # ErrNil
    THEN [returns |-> TRUE, result |-> res, ret |-> Returned(TRUE, <<>>, r.err)]
    ELSE [returns |-> FALSE, result |-> Append(res, r.rec), ret |-> NotReturned]

\* rowResultWalk's loop body: getResultantRow on the current row, whose Scan
\* the driver may fail; the deferred Close runs when the body returns
rowResultWalkRow ==
    /\ pc = "Row"
    /\ \E driverFault \in BOOLEAN :
        LET r == getResultantRow(cols, typeMapping, response.rows[cursor.pos],
                                 driverFault)
            step == rowResultWalkAppend(result, r)
        IN  /\ targets' = r.row
            /\ result' = step.result
            /\ response' = [response EXCEPT
                              !.fault = IF r.err # ErrNil THEN "scan" ELSE @]
            /\ IF step.returns
               THEN /\ qret' = step.ret
                    /\ cursor' = CloseRows(Called(cursor, "Scan"))
                    /\ pc' = "returned"
               ELSE /\ cursor' = Called(cursor, "Scan")
                    /\ pc' = "Next"
                    /\ UNCHANGED qret
    /\ UNCHANGED <<op, cols, typeMapping, ret>>
    /\ UNCHANGED dbVars

\* rowResultWalkEnd returning the accumulated records next to the error
rowResultWalkEndPartial(res, err) == Returned(FALSE, res, err)

\* what rowResultWalk returns after the loop, given rowResult.Err()
rowResultWalkEnd(res, err) ==
    IF err # ErrNil THEN Returned(TRUE, <<>>, err) ELSE Returned(FALSE, res, ErrNil)

\* rowResultWalk after the loop: rowResult.Err(), the return, the deferred
\* Close
rowResultWalkErr ==
    /\ pc = "Err"
    /\ qret' = rowResultWalkEnd(result,
                  IF response.fault = "terminal" THEN "rows error" ELSE ErrNil)
    /\ cursor' = CloseRows(Called(cursor, "Err"))
    /\ pc' = "returned"
    /\ UNCHANGED <<response, op, cols, typeMapping, targets, result, ret>>
    /\ UNCHANGED dbVars

\* firstRow answering no rows with an empty record instead of an error
firstRowOrEmpty(q) ==
    IF q.err # ErrNil THEN Returned(TRUE, <<>>, q.err)
    ELSE IF Len(q.recs) < 1 THEN Returned(FALSE, <<(<<>>)>>, ErrNil)
    ELSE Returned(FALSE, <<q.recs[1]>>, ErrNil)

\* Row and RowByStringField after QueryRaw returned: the error, "no result"
\* for no rows, or rows[0]
firstRow(q) ==
    IF q.err # ErrNil THEN Returned(TRUE, <<>>, q.err)
    ELSE IF Len(q.recs) < 1 THEN Returned(TRUE, <<>>, "no result")
    ELSE Returned(FALSE, <<q.recs[1]>>, ErrNil)

QueryRawReturn ==
    /\ pc = "returned" /\ op = "QueryRaw"
    /\ ret' = qret
    /\ pc' = "done"
    /\ UNCHANGED <<response, op, cursor, cols, typeMapping, targets, result, qret>>
    /\ UNCHANGED dbVars

RowReturn ==
    /\ pc = "returned" /\ op = "Row"
    /\ ret' = firstRow(qret)
    /\ pc' = "done"
    /\ UNCHANGED <<response, op, cursor, cols, typeMapping, targets, result, qret>>
    /\ UNCHANGED dbVars

RowByStringFieldReturn ==
    /\ pc = "returned" /\ op = "RowByStringField"
    /\ ret' = firstRow(qret)
    /\ pc' = "done"
    /\ UNCHANGED <<response, op, cursor, cols, typeMapping, targets, result, qret>>
    /\ UNCHANGED dbVars

-----------------------------------------------------------------------------
(* The Database facade: Configs, Make, MakeSchemaless, SetSchema, Close *)

\* a bound on the sql.Open calls of one run
MaxConns == 3

Fields == {"Host", "Username", "Password", "Port", "Database", "Driver"}

\* &Configs{}: every field the empty string
EmptyConfigs ==
    [Host |-> "", Username |-> "", Password |-> "", Port |-> "", Database |-> "",
     Driver |-> ""]

\* envConfigs: the key of each field and the environment variable read for it
EnvKeys == <<"host", "username", "password", "port", "database", "driver">>
EnvVarOf ==
    [host |-> "DB_HOST", username |-> "DB_USERNAME", password |-> "DB_PASSWORD",
     port |-> "DB_PORT", database |-> "DB_DATABASE", driver |-> "DB_CONNECTION"]

\* getEnvVars: result[inputName] = os.Getenv(varName)
getEnvVars(input, environ) == [k \in DOMAIN input |-> environ[input[k]]]

envConfigs(environ) == getEnvVars(EnvVarOf, environ)

\* hasAllConfigs
hasAllConfigs(c, schemaless) ==
    LET hasDB == IF schemaless THEN TRUE ELSE Len(c.Database) > 0
    IN  /\ hasDB
        /\ Len(c.Driver) > 0
        /\ Len(c.Host) > 0
        /\ Len(c.Password) > 0
        /\ Len(c.Port) > 0
        /\ Len(c.Username) > 0

\* setDBConfig with the emptiness tests lost: the environment always wins
setDBConfigOverwriting(c, key, value) ==
    CASE key = "host" -> [c EXCEPT !.Host = value]
      [] key = "username" -> [c EXCEPT !.Username = value]
      [] key = "password" -> [c EXCEPT !.Password = value]
      [] key = "port" -> [c EXCEPT !.Port = value]
      [] key = "database" -> [c EXCEPT !.Database = value]
      [] key = "driver" -> [c EXCEPT !.Driver = value]
      [] OTHER -> c

\* setDBConfig: the field of the key takes the value if it is empty
setDBConfig(c, key, value) ==
    CASE key = "host" -> IF Len(c.Host) < 1 THEN [c EXCEPT !.Host = value] ELSE c
      [] key = "username" ->
            IF Len(c.Username) < 1 THEN [c EXCEPT !.Username = value] ELSE c
      [] key = "password" ->
            IF Len(c.Password) < 1 THEN [c EXCEPT !.Password = value] ELSE c
      [] key = "port" -> IF Len(c.Port) < 1 THEN [c EXCEPT !.Port = value] ELSE c
      [] key = "database" ->
            IF Len(c.Database) < 1 THEN [c EXCEPT !.Database = value] ELSE c
      [] key = "driver" ->
            IF Len(c.Driver) < 1 THEN [c EXCEPT !.Driver = value] ELSE c
      [] OTHER -> c

\* supplementConfigs: for key, value := range envVars, skipping database in
\* schemaless mode. Go ranges over the map in no fixed order; each key writes
\* a field of its own, so the keys are taken in the order of EnvKeys.
RECURSIVE supplementFrom(_, _, _, _)
supplementFrom(c, schemaless, envVars, i) ==
    IF i > Len(EnvKeys) THEN c
    ELSE supplementFrom(
            IF EnvKeys[i] = "database" /\ schemaless THEN c
            ELSE setDBConfig(c, EnvKeys[i], envVars[EnvKeys[i]]),
            schemaless, envVars, i + 1)

supplementConfigs(c, schemaless, environ) ==
    supplementFrom(c, schemaless, envConfigs(environ), 1)

\* setConfigs: nothing when every needed field is there, else supplement
setConfigs(c, schemaless, environ) ==
    IF hasAllConfigs(c, schemaless) THEN c
    ELSE supplementConfigs(c, schemaless, environ)

\* connect's connection string with the database name appended in every mode
connectionStringAlwaysNamed(c, schemaless) ==
    c.Username \o ":" \o c.Password \o "@tcp(" \o c.Host \o ":" \o c.Port \o ")/"
        \o c.Database

\* connect: fmt.Sprintf("%s:%s@tcp(%s:%s)/", ...), plus the database name
\* if !d.Schemaless
connectionString(c, schemaless) ==
    LET connectionStr ==
            c.Username \o ":" \o c.Password \o "@tcp(" \o c.Host \o ":" \o c.Port
                \o ")/"
    IN  IF ~schemaless THEN connectionStr \o c.Database ELSE connectionStr

\* the drivers registered with database/sql: the blank import of
\* go-sql-driver/mysql
Drivers == {"mysql"}

\* sql.Open(d.configs.Driver, connectionString): a handle, or an error for a
\* driver that is not registered. The entry keeps the Configs value and the
\* Schemaless flag the string was built from.
sqlOpen(c, schemaless) ==
    [driver |-> c.Driver, dsn |-> connectionString(c, schemaless),
     state |-> IF c.Driver \in Drivers THEN "open" ELSE "failed",
     cfg |-> c, schemaless |-> schemaless]

Facade(o, passed, arg, fatal) ==
    [op |-> o, passed |-> passed, arg |-> arg, fatal |-> fatal]

\* the process is running: log.Fatal has not ended it
Running == ~last.fatal

\* Make and MakeSchemaless on the Configs value at addr, the one the caller
\* passes the pointer of: the instance keeps the pointer, so setConfigs
\* writes into the caller's value; then connect, with log.Fatal when
\* sql.Open fails. The caller passes a value of its own (a new addr) or the
\* pointer it has passed before.
make(o, passed, addr, schemaless) ==
    /\ Running
    /\ Len(conns) < MaxConns
    /\ addr \in 1..(Len(cfgs) + 1)
    /\ addr <= Len(cfgs) => passed = cfgs[addr]
    /\ LET c == setConfigs(passed, schemaless, env)
           h == sqlOpen(c, schemaless)
       IN  /\ cfgs' = IF addr > Len(cfgs) THEN Append(cfgs, c)
                      ELSE [cfgs EXCEPT ![addr] = c]
           /\ conns' = Append(conns, h)
           /\ dbs' = Append(dbs, [connection |-> Len(conns) + 1, configs |-> addr,
                                   Schemaless |-> schemaless])
           /\ last' = Facade(o, passed, "", h.state = "failed")
    /\ UNCHANGED <<env, record>>
    /\ UNCHANGED walkVars

\* the first instance of a run
Make(passed) == Len(dbs) = 0 /\ make("Make", passed, Len(cfgs) + 1, FALSE)

MakeSchemaless(passed) ==
    Len(dbs) = 0 /\ make("MakeSchemaless", passed, Len(cfgs) + 1, TRUE)

\* the instances a run makes after the first, each on a Configs value of
\* its own or on one an earlier instance was made on
MaxInstances == 2

MakeAgain(passed, addr) ==
    Len(dbs) \in 1..(MaxInstances - 1) /\ make("Make", passed, addr, FALSE)

MakeSchemalessAgain(passed, addr) ==
    Len(dbs) \in 1..(MaxInstances - 1) /\ make("MakeSchemaless", passed, addr, TRUE)

\* SetSchema that leaves the Schemaless flag as it was
SetSchemaKeepingFlag(d, schemaName) ==
    /\ Running
    /\ d \in 1..Len(dbs)
    /\ Len(conns) < MaxConns
    /\ LET c == [cfgs[dbs[d].configs] EXCEPT !.Database = schemaName]
           h == sqlOpen(c, dbs[d].Schemaless)
       IN  /\ cfgs' = [cfgs EXCEPT ![dbs[d].configs] = c]
           /\ conns' = Append(conns, h)
           /\ dbs' = [dbs EXCEPT ![d].connection = Len(conns) + 1]
           /\ last' = Facade("SetSchema", cfgs[dbs[d].configs], schemaName,
                             h.state = "failed")
    /\ UNCHANGED <<env, record>>
    /\ UNCHANGED walkVars

\* SetSchema: d.configs.Database = schemaName, d.Schemaless = false, connect
SetSchema(d, schemaName) ==
    /\ Running
    /\ d \in 1..Len(dbs)
    /\ Len(conns) < MaxConns
    /\ LET c == [cfgs[dbs[d].configs] EXCEPT !.Database = schemaName]
           h == sqlOpen(c, FALSE)
       IN  /\ cfgs' = [cfgs EXCEPT ![dbs[d].configs] = c]
           /\ conns' = Append(conns, h)
           /\ dbs' = [dbs EXCEPT ![d].connection = Len(conns) + 1,
                                 ![d].Schemaless = FALSE]
           /\ last' = Facade("SetSchema", cfgs[dbs[d].configs], schemaName,
                             h.state = "failed")
    /\ UNCHANGED <<env, record>>
    /\ UNCHANGED walkVars

\* Close: database.connection.Close()
Close(d) ==
    /\ Running
    /\ d \in 1..Len(dbs)
    /\ conns' = [conns EXCEPT ![dbs[d].connection].state = "closed"]
    /\ last' = Facade("Close", cfgs[dbs[d].configs], "", FALSE)
    /\ UNCHANGED <<env, cfgs, dbs, record>>
    /\ UNCHANGED walkVars

\* Name: database.configs.Database
Name(d) == cfgs[dbs[d].configs].Database

-----------------------------------------------------------------------------
(* Records: MakeRecord, Record.Create, Record.Update, Exec *)

\* A statement is the sequence of the pieces it is concatenated from: the
\* literal pieces of the code and the names put between them. The backquote
\* of the code's literals is written ' here.

\* strings.Join(elems, sep)
RECURSIVE Join(_, _)
Join(elems, sep) ==
    IF Len(elems) = 0 THEN <<>>
    ELSE IF Len(elems) = 1 THEN <<elems[1]>>
    ELSE <<elems[1], sep>> \o Join(Tail(elems), sep)

\* strings.Replace(s, old, new, 1): the first occurrence of old, if any
Replace(s, old, new) ==
    IF \E i \in 1..Len(s) : s[i] = old
    THEN LET i == CHOOSE i \in 1..Len(s) :
                      s[i] = old /\ \A j \in 1..(i - 1) : s[j] # old
         IN  SubSeq(s, 1, i - 1) \o new \o SubSeq(s, i + 1, Len(s))
    ELSE s

\* for field, value := range r.properties: Go visits the keys of a map in
\* an order of its choosing, each key once
RangeOrders(properties) ==
    { o \in [1..Cardinality(DOMAIN properties) -> DOMAIN properties] :
        \A i, j \in DOMAIN o : o[i] = o[j] => i = j }

\* sql.Result and the error of d.connection.Exec
ExecResult(lastInsertId, rowsAffected, err) ==
    [LastInsertId |-> lastInsertId, RowsAffected |-> rowsAffected, err |-> err]

\* what a Record operation did: the statement and parameters it gave Exec,
\* and the (int64, error) it returned
RecordCall(o, properties, table, id, stmt, params, insert, n, err) ==
    [op |-> o, properties |-> properties, table |-> table, key |-> id,
     stmt |-> stmt, params |-> params, insert |-> insert, n |-> n, err |-> err]

NoRecord ==
    RecordCall("none", <<>>, "", "", <<>>, <<>>, ExecResult(0, 0, ErrNil), 0, ErrNil)

\* Create's statement: the template with @fields and @values replaced, in
\* that order
insertStatement(name, table, fields, valuesEscapes) ==
    Replace(
        Replace(<<"INSERT INTO '", name, "'.'", table, "' ('", "@fields",
                  "') VALUES (", "@values", ")">>,
                "@fields", Join(fields, "', '")),
        "@values", Join(valuesEscapes, ", "))

\* Create's return: 0 and the error, or insert.LastInsertId()
createReturn(insert) ==
    IF insert.err # ErrNil THEN [n |-> 0, err |-> insert.err]
    ELSE [n |-> insert.LastInsertId, err |-> ErrNil]

\* MakeRecord(properties, table).Create(): one pass over the properties
\* fills fields, valuesEscapes and inserts; then Exec
Create(d, properties, table, order, insert) ==
    /\ Running
    /\ d \in 1..Len(dbs)
    /\ order \in RangeOrders(properties)
    /\ LET fields == order
           valuesEscapes == [i \in 1..Len(order) |-> "?"]
           inserts == [i \in 1..Len(order) |-> properties[order[i]]]
           r == createReturn(insert)
       IN  record' = RecordCall("Create", properties, table, "",
                        insertStatement(Name(d), table, fields, valuesEscapes),
                        inserts, insert, r.n, r.err)
    /\ UNCHANGED <<env, cfgs, dbs, conns, last>>
    /\ UNCHANGED walkVars

\* strings.TrimRight(s, ", "): the pieces at the end that are made of the
\* characters of the cutset only
CutsetPieces == {" ", ", ", ","}

RECURSIVE TrimRight(_)
TrimRight(s) ==
    IF Len(s) > 0 /\ s[Len(s)] \in CutsetPieces
    THEN TrimRight(SubSeq(s, 1, Len(s) - 1))
    ELSE s

\* r.properties[id]: nil when the map has no such key
PropertyOf(properties, id) ==
    IF id \in DOMAIN properties THEN properties[id] ELSE GoNil

\* Update's loop: the key field goes to where, every other field to the
\* SET list and its value to inserts
RECURSIVE updateSet(_, _), updateWhere(_, _), updateInserts(_, _, _)
updateSet(order, id) ==
    IF Len(order) = 0 THEN <<>>
    ELSE (IF Head(order) = id THEN <<>> ELSE <<Head(order), " = ?", ", ">>)
            \o updateSet(Tail(order), id)

updateWhere(order, id) ==
    IF Len(order) = 0 THEN <<>>
    ELSE (IF Head(order) = id THEN <<id, " = ?;">> ELSE <<>>)
            \o updateWhere(Tail(order), id)

updateInserts(order, id, properties) ==
    IF Len(order) = 0 THEN <<>>
    ELSE (IF Head(order) = id THEN <<>> ELSE <<properties[Head(order)]>>)
            \o updateInserts(Tail(order), id, properties)

updateStatement(name, table, order, id) ==
    TrimRight(<<"UPDATE '", name, "'.'", table, "' SET", " ">> \o updateSet(order, id))
        \o <<" WHERE ">> \o updateWhere(order, id)

\* Update's return: 0 and the error, or insert.LastInsertId()
updateReturn(insert) ==
    IF insert.err # ErrNil THEN [n |-> 0, err |-> insert.err]
    ELSE [n |-> insert.LastInsertId, err |-> ErrNil]

\* MakeRecord(properties, table).Update(id)
Update(d, properties, table, key, order, insert) ==
    /\ Running
    /\ d \in 1..Len(dbs)
    /\ order \in RangeOrders(properties)
    /\ LET id == IF Len(key) < 1 THEN "id" ELSE key
           inserts == Append(updateInserts(order, id, properties),
                             PropertyOf(properties, id))
           r == updateReturn(insert)
       IN  record' = RecordCall("Update", properties, table, key,
                        updateStatement(Name(d), table, order, id),
                        inserts, insert, r.n, r.err)
    /\ UNCHANGED <<env, cfgs, dbs, conns, last>>
    /\ UNCHANGED walkVars

-----------------------------------------------------------------------------
(* Specifications *)

\* the values a caller passes in a Configs field, and the values the
\* process environment holds for it; "" is a field left empty, a variable
\* not set
PassedValues ==
    [Host |-> {"", "127.0.0.1"}, Username |-> {"", "root"},
     Password |-> {"", "secret"}, Port |-> {"", "3306"},
     Database |-> {"", "shop"}, Driver |-> {"", "mysql"}]

EnvValues ==
    [DB_HOST |-> {"", "db.local"}, DB_USERNAME |-> {"", "admin"},
     DB_PASSWORD |-> {"", "envpw"}, DB_PORT |-> {"", "3307"},
     DB_DATABASE |-> {"", "envdb"}, DB_CONNECTION |-> {"", "mysql", "mariadb"}]

PassedConfigs == { c \in [Fields -> UNION { PassedValues[f] : f \in Fields }] :
                     \A f \in Fields : c[f] \in PassedValues[f] }

Environments ==
    { e \in [DOMAIN EnvValues -> UNION { EnvValues[v] : v \in DOMAIN EnvValues }] :
        \A v \in DOMAIN EnvValues : e[v] \in EnvValues[v] }

SchemaNames == {"shop", "orders"}

NoDatabase ==
    /\ env = [v \in DOMAIN EnvValues |-> ""]
    /\ cfgs = <<>>
    /\ dbs = <<>>
    /\ conns = <<>>
    /\ last = Facade("none", EmptyConfigs, "", FALSE)
    /\ record = NoRecord

InitWalk ==
    /\ op = "none"
    /\ pc = "idle"
    /\ cursor = NoCursor
    /\ cols = <<>>
    /\ typeMapping = <<>>
    /\ targets = <<>>
    /\ result = <<>>
    /\ qret = NotReturned
    /\ ret = NotReturned

Init ==
    /\ response = NoResponse("widgets")
    /\ InitWalk
    /\ NoDatabase

Next ==
    \/ QueryRaw
    \/ Row
    \/ RowByStringField
    \/ parseRowResults
    \/ getTypeMapping
    \/ rowResultWalkNext
    \/ rowResultWalkRow
    \/ rowResultWalkErr
    \/ QueryRawReturn
    \/ RowReturn
    \/ RowByStringFieldReturn

Spec == Init /\ [][Next]_vars

\* the same walker against a database with one column of every type name
InitTypes ==
    /\ response = NoResponse("types")
    /\ InitWalk
    /\ NoDatabase

SpecTypes == InitTypes /\ [][Next]_vars

\* one process that makes a Database instance and uses it, in any
\* environment
InitConfig ==
    /\ env \in Environments
    /\ cfgs = <<>>
    /\ dbs = <<>>
    /\ conns = <<>>
    /\ last = Facade("none", EmptyConfigs, "", FALSE)
    /\ record = NoRecord
    /\ response = NoResponse("widgets")
    /\ InitWalk

NextConfig ==
    \/ \E passed \in PassedConfigs : Make(passed)
    \/ \E passed \in PassedConfigs : MakeSchemaless(passed)
    \/ \E d \in 1..Len(dbs), schemaName \in SchemaNames : SetSchema(d, schemaName)
    \/ \E d \in 1..Len(dbs) : Close(d)

SpecConfig == InitConfig /\ [][NextConfig]_vars

\* the Configs values of callers that make several instances: complete, or
\* without a Database
InstanceConfigs ==
    { [Host |-> "127.0.0.1", Username |-> "root", Password |-> "secret",
       Port |-> "3306", Database |-> db, Driver |-> "mysql"] : db \in {"", "shop"} }

InitInstances ==
    /\ env = [v \in DOMAIN EnvValues |-> IF v = "DB_DATABASE" THEN "envdb" ELSE ""]
    /\ cfgs = <<>>
    /\ dbs = <<>>
    /\ conns = <<>>
    /\ last = Facade("none", EmptyConfigs, "", FALSE)
    /\ record = NoRecord
    /\ response = NoResponse("widgets")
    /\ InitWalk

NextInstances ==
    \/ \E passed \in InstanceConfigs : Make(passed)
    \/ \E passed \in InstanceConfigs : MakeSchemaless(passed)
    \/ \E addr \in 1..(Len(cfgs) + 1) :
          \E passed \in InstanceConfigs \cup { cfgs[a] : a \in 1..Len(cfgs) } :
              MakeAgain(passed, addr)
    \/ \E addr \in 1..(Len(cfgs) + 1) :
          \E passed \in InstanceConfigs \cup { cfgs[a] : a \in 1..Len(cfgs) } :
              MakeSchemalessAgain(passed, addr)
    \/ \E d \in 1..Len(dbs), schemaName \in SchemaNames : SetSchema(d, schemaName)
    \/ \E d \in 1..Len(dbs) : Close(d)

SpecInstances == InitInstances /\ [][NextInstances]_vars

\* the property maps a caller makes records of: any of these columns, each
\* with a value of its own. A column may have any name, also one that is
\* spelled like a marker of Create's template.
PropertyValues ==
    [id |-> GoInt64(7), sku |-> GoString("WIDG4"), weight |-> GoFloat64(11090)]
    @@ ("@values" :> GoString("v"))

PropertyMaps ==
    { [k \in keys |-> PropertyValues[k]] : keys \in SUBSET DOMAIN PropertyValues }

TableNames == {"widgets"}

\* the key-column names a caller gives Update
KeyNames == {"", "id", "sku"}

\* what Exec answers: an error, or a result
ExecResults ==
    { ExecResult(0, 0, "exec error"), ExecResult(0, 1, ErrNil),
      ExecResult(5, 1, ErrNil), ExecResult(5, 0, ErrNil) }

\* records on the instance that Make gave for a complete Configs value
InitRecord ==
    /\ env = [v \in DOMAIN EnvValues |-> ""]
    /\ LET c == [Host |-> "127.0.0.1", Username |-> "root", Password |-> "secret",
                 Port |-> "3306", Database |-> "shop", Driver |-> "mysql"]
       IN  /\ cfgs = <<setConfigs(c, FALSE, env)>>
           /\ conns = <<sqlOpen(cfgs[1], FALSE)>>
           /\ dbs = <<[connection |-> 1, configs |-> 1, Schemaless |-> FALSE]>>
           /\ last = Facade("Make", c, "", FALSE)
    /\ record = NoRecord
    /\ response = NoResponse("widgets")
    /\ InitWalk

NextRecord ==
    \/ \E properties \in PropertyMaps, table \in TableNames,
          insert \in ExecResults :
            \E order \in RangeOrders(properties) :
                Create(1, properties, table, order, insert)
    \/ \E properties \in PropertyMaps, table \in TableNames, key \in KeyNames,
          insert \in ExecResults :
            \E order \in RangeOrders(properties) :
                Update(1, properties, table, key, order, insert)

SpecRecord == InitRecord /\ [][NextRecord]_vars

-----------------------------------------------------------------------------
(* Claims about the walker *)

QueryRawReturned == pc \in {"returned", "done"}

\* the last position of the column name c in the column list cs: the one
\* whose value a record keeps under c
LastPos(cs, c) ==
    CHOOSE i \in 1..Len(cs) :
        cs[i] = c /\ \A j \in 1..Len(cs) : cs[j] = c => j <= i

\* the dispatch table of the specification's Type Resolver
TableIntegerNames ==
    { "INT", "BIT", "TINYINT", "BOOL", "BOOLEAN", "SMALLINT", "MEDIUMINT",
      "INTEGER", "BIGINT" }
TableFloatNames == { "FLOAT", "DOUBLE", "DECIMAL", "DEC" }
TableKind(t) ==
    IF t \in TableIntegerNames THEN "NullInt64"
    ELSE IF t \in TableFloatNames THEN "NullFloat64" ELSE "NullString"
GoKindOf(k) ==
    IF k = "NullInt64" THEN "int64" ELSE IF k = "NullFloat64" THEN "float64" ELSE "string"

\* the upper-case form of a type name
UpperCase(t) ==
    IF \E u \in UpperNames : t \in {u, LowerCase[u], TitleCase[u]}
    THEN CHOOSE u \in UpperNames : t \in {u, LowerCase[u], TitleCase[u]}
    ELSE t

\* C1: whenever QueryRaw has returned and its query produced a cursor, the
\* cursor is closed, whichever exit path was taken.
C1_CursorClosedOnEveryReturn ==
    (QueryRawReturned /\ cursor.exists) => cursor.closed

\* C2: after a row is materialised, the record holds nil under the name of
\* every column whose scan target came back with Valid = FALSE.
C2_NullColumnGivesNil ==
    (pc = "Next" /\ Len(result) >= 1) =>
        \A i \in 1..Len(targets) :
            (~targets[i].Valid /\ LastPos(cols, cols[i]) = i)
                => result[Len(result)][cols[i]] = GoNil

\* C3: every record QueryRaw returns has a key for every column name the
\* cursor reported.
C3_EveryColumnIsAKey ==
    (QueryRawReturned /\ ~qret.isNil) =>
        \A k \in 1..Len(qret.recs) :
            \A i \in 1..Len(response.cols) :
                response.cols[i].name \in DOMAIN qret.recs[k]

C3_Witness ==
    /\ pc = "returned" /\ ~qret.isNil /\ Len(qret.recs) = 2
    /\ \E i \in 1..Len(response.cols) : response.rows[2][i] = SrcNull

\* C4: the scan target of every column has the kind the dispatch table gives
\* for the type name mapped to the column, unrecognised names giving a
\* string, and a non-null value in a record has the Go kind of its target.
C4_DispatchTable ==
    /\ \A i \in 1..Len(targets) :
          targets[i].kind = TableKind(Lookup(typeMapping, cols[i]))
    /\ (QueryRawReturned /\ ~qret.isNil) =>
          \A k \in 1..Len(qret.recs) : \A c \in DOMAIN qret.recs[k] :
              response.rows[k][LastPos(cols, c)] # SrcNull =>
                  qret.recs[k][c].kind = GoKindOf(TableKind(Lookup(typeMapping, c)))

C4_Witness ==
    /\ pc = "returned" /\ ~qret.isNil /\ Len(qret.recs) = 1
    /\ response.cols[1].type = "BIT"
    /\ qret.recs[1]["c"] = GoInt64(7)

\* C5 as claimed: every letter-casing of a type name resolves to the kind of
\* its upper-case form.
C5_CaseInsensitive ==
    \A i \in 1..Len(targets) :
        targets[i].kind = TableKind(UpperCase(Lookup(typeMapping, cols[i])))

\* C5 as amended: the match is exact; a type name that is not in its
\* upper-case form resolves to a string, so it agrees with its upper-case
\* form exactly when that form is in the string family.
C5_CaseSensitive ==
    \A i \in 1..Len(targets) :
        LET t == Lookup(typeMapping, cols[i])
        IN  /\ t # UpperCase(t) => targets[i].kind = "NullString"
            /\ targets[i].kind = TableKind(UpperCase(t))
                 <=> (t = UpperCase(t) \/ TableKind(UpperCase(t)) = "NullString")

C5_Witness ==
    /\ pc = "returned" /\ ~qret.isNil /\ Len(qret.recs) = 1
    /\ response.cols[1].type = "int"
    /\ targets[1].kind = "NullString"
    /\ qret.recs[1]["c"] = GoString("7")

\* C6: a successful QueryRaw returns one record per row the cursor yielded,
\* the k-th built from the k-th row, and an empty non-nil sequence without
\* error when the cursor yielded no row.
C6_OneRecordPerRowInOrder ==
    /\ (QueryRawReturned /\ qret.err = ErrNil) =>
          /\ ~qret.isNil
          /\ Len(qret.recs) = Len(response.rows)
          /\ \A k \in 1..Len(qret.recs) :
                qret.recs[k] =
                    getResultantRow(cols, typeMapping, response.rows[k], FALSE).rec
    /\ (QueryRawReturned /\ response.fault = "none" /\ response.rows = <<>>) =>
          qret = Returned(FALSE, <<>>, ErrNil)

C6_Witness ==
    /\ pc = "returned" /\ qret.err = ErrNil /\ Len(qret.recs) = 2
    /\ response.rows[1] # response.rows[2]

\* C7: QueryRaw returns either nil with an error or the records without one:
\* a failed row or a terminal cursor error gives that error and nil, however
\* many records were accumulated, and records come back only when every row
\* was materialised and no terminal error is set.
C7_NoPartialResult ==
    QueryRawReturned =>
        /\ qret.err # ErrNil => (qret.isNil /\ qret.recs = <<>>)
        /\ response.fault = "scan" =>
              qret.err \in {"scan error", "scan conversion error"}
        /\ response.fault = "terminal" => qret.err = "rows error"
        /\ ~qret.isNil =>
              /\ qret.err = ErrNil
              /\ response.fault = "none"
              /\ Len(qret.recs) = Len(response.rows)

C7_Witness ==
    /\ pc = "returned" /\ response.fault \in {"scan", "terminal"}
    /\ Len(result) >= 1 /\ qret.isNil

\* C8: Row and RowByStringField return the error "no result" and no record
\* when QueryRaw succeeded with no rows, the first row's record and no error
\* when it succeeded with rows, and QueryRaw's own error when it failed.
C8_SingleRowLookup ==
    (pc = "done" /\ op \in {"Row", "RowByStringField"}) =>
        /\ (response.fault = "none" /\ response.rows = <<>>)
              => ret = Returned(TRUE, <<>>, "no result")
        /\ (response.fault = "none" /\ Len(response.rows) >= 1)
              => ret = Returned(FALSE,
                    <<getResultantRow(cols, typeMapping, response.rows[1], FALSE).rec>>,
                    ErrNil)
        /\ response.fault # "none"
              => (ret.isNil /\ ret.err = qret.err /\ ret.err # "no result"
                    /\ ret.err # ErrNil)

C8_Witness ==
    /\ pc = "done" /\ op = "RowByStringField"
    /\ response.fault = "none" /\ response.rows = <<>>
    /\ ret.err = "no result"

-----------------------------------------------------------------------------
(* Claims about the facade *)

\* the environment variable of each Configs field
VarOfField ==
    [Host |-> "DB_HOST", Username |-> "DB_USERNAME", Password |-> "DB_PASSWORD",
     Port |-> "DB_PORT", Database |-> "DB_DATABASE", Driver |-> "DB_CONNECTION"]

\* C9: right after Make or MakeSchemaless every Configs field is the
\* passed-in value if that was non-empty, and otherwise the value of the
\* field's environment variable, except Database in schemaless mode, which
\* stays empty.
C9_PerFieldSupplement ==
    last.op \in {"Make", "MakeSchemaless"} =>
        \A f \in Fields :
            LET now == cfgs[dbs[1].configs][f]
                passed == last.passed[f]
            IN  /\ passed # "" => now = passed
                /\ passed = "" =>
                      now = IF f = "Database" /\ last.op = "MakeSchemaless"
                            THEN "" ELSE env[VarOfField[f]]

C9_Witness ==
    /\ last.op = "Make"
    /\ last.passed.Host = "" /\ env.DB_HOST = "db.local"
    /\ last.passed.Port = "3306" /\ env.DB_PORT = "3307"
    /\ cfgs[dbs[1].configs].Host = "db.local"
    /\ cfgs[dbs[1].configs].Port = "3306"

\* C10: every connection string handed to sql.Open is
\* username:password@tcp(host:port)/ followed by the database name when the
\* instance was not schemaless at that moment, and by nothing when it was.
C10_ConnectionString ==
    \A k \in 1..Len(conns) :
        LET c == conns[k].cfg
            prefix == c.Username \o ":" \o c.Password \o "@tcp(" \o c.Host \o ":"
                        \o c.Port \o ")/"
        IN  /\ ~conns[k].schemaless => conns[k].dsn = prefix \o c.Database
            /\ conns[k].schemaless => conns[k].dsn = prefix

C10_Witness ==
    /\ Len(conns) = 2
    /\ conns[1].schemaless /\ conns[1].cfg.Database = "shop"
    /\ conns[1].dsn = "root:secret@tcp(127.0.0.1:3306)/"
    /\ conns[2].dsn = "root:secret@tcp(127.0.0.1:3306)/orders"

\* the positions of a call in the cursor's calls
CallsOf(call) == { i \in 1..Len(cursor.calls) : cursor.calls[i] = call }

\* C16: the cursor goes from open through its reads to exhausted or faulted
\* and then closed: a row is populated only right after an advance that
\* reported a row, the terminal error is read only right after the advance
\* that ended the loop, nothing is called on the cursor after its Close, and
\* when QueryRaw has returned, the cursor it obtained was closed exactly once.
C16_CursorLifecycle ==
    /\ \A i \in CallsOf("Scan") : i > 1 /\ cursor.calls[i - 1] = "Next true"
    /\ \A i \in CallsOf("Err") : i > 1 /\ cursor.calls[i - 1] = "Next false"
    /\ \A i \in CallsOf("Close") : i = Len(cursor.calls)
    /\ (QueryRawReturned /\ cursor.exists) => Cardinality(CallsOf("Close")) = 1

\* C17: the i-th scan target has the kind the dispatch table gives for the
\* type the i-th column of the result reports, also when columns of the
\* result share a name.
C17_TargetKindByPosition ==
    \A i \in 1..Len(targets) :
        targets[i].kind = TableKind(response.cols[i].type)

\* the connection handles that are open: opened and not closed
OpenConnections == { k \in 1..Len(conns) : conns[k].state = "open" }

\* C14: an instance holds one connection: after Make or MakeSchemaless and
\* any SetSchema and Close calls, at most one of the handles opened for the
\* instance is open; SetSchema on an instance whose connection is open does
\* not leave the earlier handle open.
C14_OneOpenConnection == Cardinality(OpenConnections) <= 1

\* C15: after SetSchema(s), also on an instance made by MakeSchemaless,
\* Name() is s, the Schemaless flag is false and the current connection was
\* opened with a connection string ending in s; after Make with a non-empty
\* Database x, Name() is x.
C15_SchemaBinding ==
    /\ last.op = "SetSchema" =>
          /\ Name(1) = last.arg
          /\ ~dbs[1].Schemaless
          /\ LET c == cfgs[dbs[1].configs]
                 address == c.Username \o ":" \o c.Password \o "@tcp(" \o c.Host
                                \o ":" \o c.Port \o ")/"
             IN  conns[dbs[1].connection].dsn = address \o last.arg
    /\ (last.op = "Make" /\ last.passed.Database # "") =>
          Name(1) = last.passed.Database

C15_Witness ==
    /\ last.op = "SetSchema" /\ last.arg = "orders"
    /\ Len(conns) = 2 /\ conns[1].schemaless
    /\ dbs[1].connection = 2
    /\ Name(1) = "orders" /\ ~dbs[1].Schemaless
    /\ conns[2].dsn = "root:secret@tcp(127.0.0.1:3306)/orders"

\* C18: an operation on one instance changes nothing another instance
\* reports, also when both were made from the same Configs value: an
\* instance the step does not act on keeps its Name() and config fields;
\* and the caller's Configs values stay as the caller made them.
C18_InstancesIndependent ==
    [][/\ \A d \in 1..Len(dbs) :
             dbs'[d] = dbs[d] => cfgs'[dbs[d].configs] = cfgs[dbs[d].configs]
       /\ \A a \in 1..Len(cfgs) : cfgs'[a] = cfgs[a]
       /\ Len(cfgs') > Len(cfgs) => cfgs'[Len(cfgs')] = last'.passed]_vars

-----------------------------------------------------------------------------
(* Claims about records *)

\* the number of ? placeholders of a statement
RECURSIVE Placeholders(_)
Placeholders(stmt) ==
    IF Len(stmt) = 0 THEN 0
    ELSE (IF Head(stmt) \in {"?", " = ?", " = ?;"} THEN 1 ELSE 0)
            + Placeholders(Tail(stmt))

\* C11: Create's statement is INSERT INTO schema.table (...) VALUES (...)
\* listing every property name exactly once, with one ? per listed column,
\* and the i-th parameter is the value of the i-th listed column; Create
\* returns the last-inserted id, or 0 and the error of the execution.
C11_CreateStatement ==
    record.op = "Create" =>
        /\ \E columns \in RangeOrders(record.properties) :
              /\ record.stmt =
                    <<"INSERT INTO '", Name(1), "'.'", record.table, "' ('">>
                    \o Join(columns, "', '") \o <<"') VALUES (">>
                    \o Join([i \in 1..Len(columns) |-> "?"], ", ") \o <<")">>
              /\ record.params =
                    [i \in 1..Len(columns) |-> record.properties[columns[i]]]
        /\ Placeholders(record.stmt) = Len(record.params)
        /\ record.insert.err = ErrNil =>
              record.n = record.insert.LastInsertId /\ record.err = ErrNil
        /\ record.insert.err # ErrNil =>
              record.n = 0 /\ record.err = record.insert.err

\* the column a call of Update takes for the key
KeyColumn == IF record.key = "" THEN "id" ELSE record.key

\* col = ?, col = ?, ... for the columns in the given order
RECURSIVE SetList(_)
SetList(columns) ==
    IF Len(columns) = 0 THEN <<>>
    ELSE IF Len(columns) = 1 THEN <<columns[1], " = ?">>
    ELSE <<columns[1], " = ?", ", ">> \o SetList(Tail(columns))

\* C12: Update's statement is UPDATE schema.table SET col = ?, ... WHERE
\* key = ? where key is the given name or "id" when the given name is
\* empty; the key column is not in the SET list and every other property is
\* in it exactly once; the parameters are the SET values in SET order and
\* then the key column's value; there are as many ? as parameters.
C12_UpdateStatement ==
    record.op = "Update" =>
        /\ \E columns \in RangeOrders([k \in DOMAIN record.properties \ {KeyColumn}
                                            |-> record.properties[k]]) :
              /\ record.stmt =
                    <<"UPDATE '", Name(1), "'.'", record.table, "' SET">>
                    \o (IF Len(columns) = 0 THEN <<>> ELSE <<" ">> \o SetList(columns))
                    \o <<" WHERE ", KeyColumn, " = ?;">>
              /\ record.params =
                    [i \in 1..(Len(columns) + 1) |->
                        IF i <= Len(columns) THEN record.properties[columns[i]]
                        ELSE PropertyOf(record.properties, KeyColumn)]
        /\ Placeholders(record.stmt) = Len(record.params)

\* C13: an Update that executes without error returns the affected-row
\* count of the result; one that fails returns 0 and the error.
C13_UpdateReturnsRowsAffected ==
    record.op = "Update" =>
        /\ record.insert.err = ErrNil =>
              record.n = record.insert.RowsAffected /\ record.err = ErrNil
        /\ record.insert.err # ErrNil =>
              record.n = 0 /\ record.err = record.insert.err

====
